---- MODULE Spec2Model ----
(***************************************************************************)
(* The RFM dashboard script (src/rfm_dashboard.py) as a state machine.     *)
(* The script runs top to bottom; each section of the script is one        *)
(* action and pc names the section that runs next.                         *)
(*                                                                         *)
(* Timestamps are integers counting ticks; one day is TicksPerDay ticks,   *)
(* so that a timestamp carries a time of day and Timedelta.days has to     *)
(* round.  A cell that holds no value (NaN) is the number NaN, a           *)
(* timestamp that did not parse is NaT.                                    *)
(***************************************************************************)
EXTENDS Integers, Sequences, FiniteSets, TLC

VARIABLES
    pc,             \* the section of the script that runs next
    file,           \* the CSV the script reads: [present, header, rows]
    columns,        \* df.columns, a set of column names
    df,             \* the rows of df, each a record of the four required cells
    missing_cols,   \* the list computed at line 56
    snapshot_date,  \* line 68
    rfm,            \* the customer table, a sequence of records
    fallback,       \* the metrics for which safe_qcut took its except branch
    errors,         \* the messages passed to st.error
    rendered        \* TRUE once the dashboard body (filters, KPIs, charts) was drawn

vars == <<pc, file, columns, df, missing_cols, snapshot_date, rfm, fallback,
          errors, rendered>>

-----------------------------------------------------------------------------
(* Bounds of the model *)

MaxRows == 2        \* rows of a transaction table drawn cell by cell
MaxCust == 5        \* customers of a table drawn customer by customer

(* Representation *)

TicksPerDay == 2    \* pd.Timedelta(days=1)
NaN == 0            \* an empty cell of CustomerID or InvoiceNo
NaT == -1           \* pd.NaT
BadDate == -2       \* an InvoiceDate cell whose text is no date
NumQuantiles == 4   \* the 4 of pd.qcut(series, 4, ...)

-----------------------------------------------------------------------------
(* Helpers on sequences and sets of integers *)

Range(s) == {s[i] : i \in 1..Len(s)}

\* The function f on 1..n as a tuple: its elements are evaluated once, here,
\* and not again each time one of them is read.
AsTuple(f) == f \o <<>>

SetMax(S) == CHOOSE m \in S : \A x \in S : x <= m

\* The elements of the finite set of integers S in ascending order.
SortedSeq(S) ==
    AsTuple([k \in 1..Cardinality(S) |->
        CHOOSE v \in S : Cardinality({x \in S : x < v}) = k - 1])

\* The values of the sequence s in ascending order (duplicates kept).
SortValues(s) ==
    AsTuple([k \in 1..Len(s) |->
        CHOOSE v \in Range(s) :
            /\ Cardinality({j \in 1..Len(s) : s[j] < v}) < k
            /\ k <= Cardinality({j \in 1..Len(s) : s[j] <= v})])

RECURSIVE SumSeq(_)
SumSeq(s) == IF s = <<>> THEN 0 ELSE Head(s) + SumSeq(Tail(s))

\* The sequence s without repeated values, first occurrences kept.
Unique(s) ==
    LET keep == {i \in 1..Len(s) : \A j \in 1..(i - 1) : s[j] # s[i]}
        idx == SortedSeq(keep)
    IN AsTuple([k \in 1..Len(idx) |-> s[idx[k]]])

-----------------------------------------------------------------------------
(* Column names: lines 43-56 *)

\* str.strip() on the column names that occur in the headers of the model.
Strip(name) ==
    CASE name = " CustomerID" -> "CustomerID"
      [] name = "InvoiceDate " -> "InvoiceDate"
      [] name = " Order ID " -> "Order ID"
      [] name = "Sales " -> "Sales"
      [] OTHER -> name

column_mapping(name) ==
    CASE name = "Customer ID" -> "CustomerID"
      [] name = "Order Date" -> "InvoiceDate"
      [] name = "Order ID" -> "InvoiceNo"
      [] name = "Sales" -> "Monetary"
      [] OTHER -> name

required_columns == <<"CustomerID", "InvoiceDate", "InvoiceNo", "Monetary">>

StandardizedColumns(cols) == {column_mapping(Strip(c)) : c \in cols}

MissingCols(cols) == SelectSeq(required_columns, LAMBDA c : c \notin cols)

-----------------------------------------------------------------------------
(* Data preparation: lines 65-76 *)

\* pd.to_datetime(..., errors="coerce") on one cell
to_datetime(cell) == IF cell >= 0 THEN cell ELSE NaT

ParseDates(rows) ==
    AsTuple([i \in 1..Len(rows) |->
        [rows[i] EXCEPT !.InvoiceDate = to_datetime(rows[i].InvoiceDate)]])

\* dropna left out: the rows without a date stay in df
DropNaT_keep(rows) == rows

\* df.dropna(subset=["InvoiceDate"])
DropNaT(rows) == SelectSeq(rows, LAMBDA r : r.InvoiceDate # NaT)

\* the snapshot date taken as the latest date itself, the day not added
SnapshotDate_no_offset(rows) ==
    IF rows = <<>> THEN NaT
    ELSE SetMax({rows[i].InvoiceDate : i \in 1..Len(rows)})

\* df["InvoiceDate"].max() + pd.Timedelta(days=1); the max of no value is NaT
SnapshotDate(rows) ==
    IF rows = <<>> THEN NaT
    ELSE SetMax({rows[i].InvoiceDate : i \in 1..Len(rows)}) + TicksPerDay

\* The group keys of df.groupby("CustomerID"): the distinct values in
\* ascending order, rows whose key is NaN left out.
GroupKeys(rows) ==
    SortedSeq({rows[i].CustomerID : i \in 1..Len(rows)} \ {NaN})

Group(rows, key) == SelectSeq(rows, LAMBDA r : r.CustomerID = key)

\* Timedelta.days of a difference of two timestamps
Days(delta) == delta \div TicksPerDay

\* lambda x: (snapshot_date - x.max()).days
RecencyOf(g, snap) ==
    Days(snap - SetMax({g[i].InvoiceDate : i \in 1..Len(g)}))

\* "nunique": the number of distinct values, NaN not counted
NUnique(g) == Cardinality({g[i].InvoiceNo : i \in 1..Len(g)} \ {NaN})

\* "sum"
SumMonetary(g) == SumSeq([i \in 1..Len(g) |-> g[i].Monetary])

\* df.groupby("CustomerID").agg({...}).reset_index() with the columns renamed
Aggregate(rows, snap) ==
    LET keys == GroupKeys(rows)
    IN AsTuple([k \in 1..Len(keys) |->
          LET g == Group(rows, keys[k])
          IN [CustomerID |-> keys[k],
              Recency    |-> RecencyOf(g, snap),
              Frequency  |-> NUnique(g),
              Monetary   |-> SumMonetary(g)]])

-----------------------------------------------------------------------------
(* Scoring: lines 81-95.  Quantile edges are kept multiplied by             *)
(* NumQuantiles, which makes the linear interpolation of Series.quantile   *)
(* exact in integers; the values compared with them are scaled alike.      *)

\* a rank that puts the later of two equal values first
rank_last_first(series) ==
    AsTuple([i \in 1..Len(series) |->
        Cardinality({j \in 1..Len(series) : series[j] < series[i]})
        + Cardinality({j \in i..Len(series) : series[j] = series[i]})])

\* Series.rank(method="first"): ranks 1..n, equal values ranked in the
\* order they appear in the series.
rank_first(series) ==
    AsTuple([i \in 1..Len(series) |->
        Cardinality({j \in 1..Len(series) : series[j] < series[i]})
        + Cardinality({j \in 1..i : series[j] = series[i]})])

\* series.quantile(np.linspace(0, 1, q + 1)), linear interpolation, times q.
\* The quantiles of an empty series are all NaN.
QuantileEdges(series, q) ==
    LET n == Len(series)
        s == SortValues(series)
    IN AsTuple([k \in 1..(q + 1) |->
          IF n = 0 THEN NaN
          ELSE LET num == (n - 1) * (k - 1)
                   lo  == num \div q
                   fr  == num % q
               IN IF fr = 0 THEN q * s[lo + 1]
                  ELSE q * s[lo + 1] + fr * (s[lo + 2] - s[lo + 1])])

\* the cut without include_lowest: the least value falls in no bin
qcut_open_lowest(series, q, labels) ==
    LET edges == QuantileEdges(series, q)
        uniq  == Unique(edges)
        bins  == IF Len(uniq) < Len(edges) /\ Len(edges) # 2 THEN uniq ELSE edges
        id(x) == Cardinality({b \in 1..Len(bins) : bins[b] < q * x})
    IN IF Len(labels) # Len(bins) - 1
       THEN [raised |-> TRUE, values |-> <<>>]
       ELSE [raised |-> FALSE,
             values |-> AsTuple([i \in 1..Len(series) |->
                           IF id(series[i]) = 0 \/ id(series[i]) = Len(bins)
                           THEN NaN
                           ELSE labels[id(series[i])]])]

\* _bins_to_cuts with duplicates="drop", include_lowest=True, right=True:
\* repeated edges are dropped, and then the labels must be one fewer than
\* the edges, which raises ValueError when an edge was dropped.
qcut(series, q, labels) ==
    LET edges == QuantileEdges(series, q)
        uniq  == Unique(edges)
        bins  == IF Len(uniq) < Len(edges) /\ Len(edges) # 2 THEN uniq ELSE edges
        id(x) == IF q * x = bins[1] THEN 1
                 ELSE Cardinality({b \in 1..Len(bins) : bins[b] < q * x})
    IN IF Len(labels) # Len(bins) - 1
       THEN [raised |-> TRUE, values |-> <<>>]
       ELSE [raised |-> FALSE,
             values |-> AsTuple([i \in 1..Len(series) |->
                           IF id(series[i]) = 0 \/ id(series[i]) = Len(bins)
                           THEN NaN
                           ELSE labels[id(series[i])]])]

safe_qcut(series, labels) ==
    LET r == qcut(series, NumQuantiles, labels)
    IN IF r.raised THEN AsTuple([i \in 1..Len(series) |-> labels[1]]) ELSE r.values

\* Recency labelled like the other two metrics
R_labels_ascending == <<1, 2, 3, 4>>

R_labels == <<4, 3, 2, 1>>
F_labels == <<1, 2, 3, 4>>
M_labels == <<1, 2, 3, 4>>

Column(table, name) == AsTuple([i \in 1..Len(table) |-> table[i][name]])

\* astype(str) on a score
astype_str(v) == IF v = NaN THEN "nan" ELSE ToString(v)

RFMScoreOf(row) ==
    astype_str(row.R_Score) \o astype_str(row.F_Score) \o astype_str(row.M_Score)

-----------------------------------------------------------------------------
(* Segment logic: lines 100-112 *)

\* the rule table with another catch-all label
segment_customer_potential(score) ==
    IF score \in {"444", "443", "434", "433"} THEN "Champions"
    ELSE IF score \in {"344", "343", "334"} THEN "Loyal Customers"
    ELSE IF score \in {"244", "243", "234"} THEN "Potential Loyalist"
    ELSE IF score \in {"144", "143"} THEN "New Customers"
    ELSE IF score \in {"111", "112", "121"} THEN "At Risk"
    ELSE "Potential"

segment_customer(score) ==
    IF score \in {"444", "443", "434", "433"} THEN "Champions"
    ELSE IF score \in {"344", "343", "334"} THEN "Loyal Customers"
    ELSE IF score \in {"244", "243", "234"} THEN "Potential Loyalist"
    ELSE IF score \in {"144", "143"} THEN "New Customers"
    ELSE IF score \in {"111", "112", "121"} THEN "At Risk"
    ELSE "Others"

-----------------------------------------------------------------------------
(* The sections of the script *)

\* lines 27-38: read the uploaded or the default CSV, or stop
LoadData ==
    /\ pc = "load"
    /\ IF file.present
       THEN /\ df' = file.rows
            /\ columns' = file.header
            /\ pc' = "standardize"
            /\ UNCHANGED errors
       ELSE /\ errors' = errors \cup {"No dataset found"}
            /\ pc' = "stopped"
            /\ UNCHANGED <<df, columns>>
    /\ UNCHANGED <<file, missing_cols, snapshot_date, rfm, fallback, rendered>>

\* the error reported and st.stop() left out
StandardizeColumns_no_stop ==
    /\ pc = "standardize"
    /\ columns' = StandardizedColumns(columns)
    /\ missing_cols' = MissingCols(columns')
    /\ errors' = IF missing_cols' # <<>>
                 THEN errors \cup {"Missing required columns"} ELSE errors
    /\ pc' = "prepare"
    /\ UNCHANGED <<file, df, snapshot_date, rfm, fallback, rendered>>

\* lines 43-60: strip and rename the columns, stop when a required one is absent
StandardizeColumns ==
    /\ pc = "standardize"
    /\ columns' = StandardizedColumns(columns)
    /\ missing_cols' = MissingCols(columns')
    /\ IF missing_cols' # <<>>
       THEN /\ errors' = errors \cup {"Missing required columns"}
            /\ pc' = "stopped"
       ELSE /\ pc' = "prepare"
            /\ UNCHANGED errors
    /\ UNCHANGED <<file, df, snapshot_date, rfm, fallback, rendered>>

\* lines 65-76: parse the dates, drop the rows without one, aggregate
PrepareData ==
    /\ pc = "prepare"
    /\ df' = DropNaT(ParseDates(df))
    /\ snapshot_date' = SnapshotDate(df')
    /\ rfm' = Aggregate(df', snapshot_date')
    /\ pc' = "score"
    /\ UNCHANGED <<file, columns, missing_cols, fallback, errors, rendered>>

\* lines 87-89
ScoreMetrics ==
    /\ pc = "score"
    /\ LET recency == Column(rfm, "Recency")
           franks  == rank_first(Column(rfm, "Frequency"))
           money   == Column(rfm, "Monetary")
           R == safe_qcut(recency, R_labels)
           F == safe_qcut(franks, F_labels)
           M == safe_qcut(money, M_labels)
       IN /\ rfm' = [i \in 1..Len(rfm) |->
                       [CustomerID |-> rfm[i].CustomerID,
                        Recency    |-> rfm[i].Recency,
                        Frequency  |-> rfm[i].Frequency,
                        Monetary   |-> rfm[i].Monetary,
                        R_Score    |-> R[i],
                        F_Score    |-> F[i],
                        M_Score    |-> M[i]]]
          /\ fallback' =
                {m \in {"Recency"} : qcut(recency, NumQuantiles, R_labels).raised}
                \cup {m \in {"Frequency"} : qcut(franks, NumQuantiles, F_labels).raised}
                \cup {m \in {"Monetary"} : qcut(money, NumQuantiles, M_labels).raised}
    /\ pc' = "compose"
    /\ UNCHANGED <<file, columns, df, missing_cols, snapshot_date, errors, rendered>>

\* lines 91-95
ComposeRFMScore ==
    /\ pc = "compose"
    /\ rfm' = [i \in 1..Len(rfm) |->
                 [CustomerID |-> rfm[i].CustomerID,
                  Recency    |-> rfm[i].Recency,
                  Frequency  |-> rfm[i].Frequency,
                  Monetary   |-> rfm[i].Monetary,
                  R_Score    |-> rfm[i].R_Score,
                  F_Score    |-> rfm[i].F_Score,
                  M_Score    |-> rfm[i].M_Score,
                  RFM_Score  |-> RFMScoreOf(rfm[i])]]
    /\ pc' = "segment"
    /\ UNCHANGED <<file, columns, df, missing_cols, snapshot_date, fallback,
                   errors, rendered>>

\* line 114
Segment ==
    /\ pc = "segment"
    /\ rfm' = [i \in 1..Len(rfm) |->
                 [CustomerID |-> rfm[i].CustomerID,
                  Recency    |-> rfm[i].Recency,
                  Frequency  |-> rfm[i].Frequency,
                  Monetary   |-> rfm[i].Monetary,
                  R_Score    |-> rfm[i].R_Score,
                  F_Score    |-> rfm[i].F_Score,
                  M_Score    |-> rfm[i].M_Score,
                  RFM_Score  |-> rfm[i].RFM_Score,
                  Segment    |-> segment_customer(rfm[i].RFM_Score)]]
    /\ pc' = "render"
    /\ UNCHANGED <<file, columns, df, missing_cols, snapshot_date, fallback,
                   errors, rendered>>

\* lines 119-257: filters, KPIs, charts and the download; they read rfm and df.
\* With no customer the Recency column is empty and, with the pandas versions
\* that keep it a datetime column, its mean is NaT and round() at line 141
\* raises: the run either ends or dies there after drawing the sidebar.
Render ==
    /\ pc = "render"
    /\ rendered' = TRUE
    /\ pc' \in (IF rfm = <<>> THEN {"done", "crashed"} ELSE {"done"})
    /\ UNCHANGED <<file, columns, df, missing_cols, snapshot_date, rfm, fallback,
                   errors>>

Next ==
    \/ LoadData
    \/ StandardizeColumns
    \/ PrepareData
    \/ ScoreMetrics
    \/ ComposeRFMScore
    \/ Segment
    \/ Render

-----------------------------------------------------------------------------
(* Inputs *)

HGeneric    == {"CustomerID", "InvoiceDate", "InvoiceNo", "Monetary"}
HSuperstore == {"Customer ID", "Order Date", "Order ID", "Sales", "Region"}
HPadded     == {" CustomerID", "InvoiceDate ", " Order ID ", "Sales "}
HRetail     == {"InvoiceNo", "Quantity", "InvoiceDate", "UnitPrice", "CustomerID"}
HNoCustomer == {"Customer Name", "Order Date", "Order ID", "Sales"}
HNone       == {"Region"}

Headers == {HGeneric, HSuperstore, HPadded, HRetail, HNoCustomer, HNone}

CustomerIDs == {NaN, 1, 2}
RawDates    == {BadDate, 0, 1, 3}
InvoiceNos  == {NaN, 1, 2}
Amounts     == {-1, 2}

RowDomain ==
    [CustomerID : CustomerIDs, InvoiceDate : RawDates,
     InvoiceNo : InvoiceNos, Monetary : Amounts]

Tables(n) == UNION {[1..k -> RowDomain] : k \in 0..n}

NoFile == [present |-> FALSE, header |-> {}, rows |-> <<>>]

Start(f) ==
    /\ pc = "load"
    /\ file = f
    /\ columns = {}
    /\ df = <<>>
    /\ missing_cols = <<>>
    /\ snapshot_date = NaT
    /\ rfm = <<>>
    /\ fallback = {}
    /\ errors = {}
    /\ rendered = FALSE

\* Every table under the generic header, and every header over the tables of
\* at most one row.
Files ==
    {NoFile}
    \cup {[present |-> TRUE, header |-> HGeneric, rows |-> t] : t \in Tables(MaxRows)}
    \cup {[present |-> TRUE, header |-> h, rows |-> t] : h \in Headers, t \in Tables(1)}

Init == \E f \in Files : Start(f)

Spec == Init /\ [][Next]_vars

-----------------------------------------------------------------------------
(* Tables drawn customer by customer.  A customer is given by the tick of  *)
(* the last purchase, the number of distinct orders and the total amount;  *)
(* the customer's rows are one per order, all at that tick, the first      *)
(* carrying the total.  The customers' blocks of rows are laid out in       *)
(* descending order of CustomerID.                                          *)
(* The customers of a table choose among Profiles independently, and each  *)
(* of the three last ticks, two order counts and three totals is in some   *)
(* profile: every vector of Recency values, of Frequency values and of     *)
(* Monetary values over them occurs in some table.                          *)

Profile(l, o, t) == [last |-> l, orders |-> o, total |-> t]

Profiles ==
    {Profile(0, 1, 2), Profile(0, 2, 5), Profile(1, 1, 2),
     Profile(1, 2, -1), Profile(4, 1, 5), Profile(4, 2, -1)}

CustomerRows(id, p) ==
    AsTuple([j \in 1..p.orders |->
        [CustomerID |-> id, InvoiceDate |-> p.last, InvoiceNo |-> j,
         Monetary |-> IF j = 1 THEN p.total ELSE 0]])

RECURSIVE TableOf(_)
TableOf(ps) ==
    IF ps = <<>> THEN <<>>
    ELSE CustomerRows(Len(ps), ps[Len(ps)]) \o TableOf(SubSeq(ps, 1, Len(ps) - 1))

InitScore ==
    \E n \in 0..MaxCust :
        \E ps \in [1..n -> Profiles] :
            Start([present |-> TRUE, header |-> HSuperstore, rows |-> TableOf(ps)])

SpecScore == InitScore /\ [][Next]_vars

-----------------------------------------------------------------------------
(* The three-customer scenario.  Day 0 is 2023-12-01, so 2024-01-08 is day *)
(* 38, 2024-01-09 day 39 and 2024-01-10 day 40.  A is customer 1, B is 2,  *)
(* C is 3.  The dates of the earlier orders of A and C and the split of    *)
(* A's 1000 over its orders are left open.                                 *)

Day(d) == d * TicksPerDay

EarlierDays == {0, 20, 38}
Shares      == {0, 100, 250}

ScenarioRows(dA, dC, share) ==
    <<[CustomerID |-> 3, InvoiceDate |-> Day(38), InvoiceNo |-> 31, Monetary |-> 300],
      [CustomerID |-> 1, InvoiceDate |-> Day(39), InvoiceNo |-> 11,
       Monetary |-> 1000 - 4 * share],
      [CustomerID |-> 2, InvoiceDate |-> Day(0), InvoiceNo |-> 21, Monetary |-> 50],
      [CustomerID |-> 1, InvoiceDate |-> Day(dA), InvoiceNo |-> 12, Monetary |-> share],
      [CustomerID |-> 1, InvoiceDate |-> Day(dA), InvoiceNo |-> 13, Monetary |-> share],
      [CustomerID |-> 3, InvoiceDate |-> Day(dC), InvoiceNo |-> 32, Monetary |-> 150],
      [CustomerID |-> 1, InvoiceDate |-> Day(dA), InvoiceNo |-> 14, Monetary |-> share],
      [CustomerID |-> 3, InvoiceDate |-> Day(dC), InvoiceNo |-> 33, Monetary |-> 50],
      [CustomerID |-> 1, InvoiceDate |-> Day(dA), InvoiceNo |-> 15, Monetary |-> share]>>

InitScenario ==
    \E dA \in EarlierDays, dC \in EarlierDays, share \in Shares :
        Start([present |-> TRUE, header |-> HGeneric,
               rows |-> ScenarioRows(dA, dC, share)])

SpecScenario == InitScenario /\ [][Next]_vars

-----------------------------------------------------------------------------
(* segment_customer on every combination of scores: two scored customers   *)
(* with any scores in 1..4, whatever table would give them these scores.   *)

Scores == 1..NumQuantiles

ScoredRow(id, r, f, m) ==
    [CustomerID |-> id, Recency |-> 1, Frequency |-> 1, Monetary |-> 0,
     R_Score |-> r, F_Score |-> f, M_Score |-> m]

InitSegment ==
    \E r1 \in Scores, f1 \in Scores, m1 \in Scores,
       r2 \in Scores, f2 \in Scores, m2 \in Scores :
        /\ pc = "compose"
        /\ file = [present |-> TRUE, header |-> HGeneric, rows |-> <<>>]
        /\ columns = HGeneric
        /\ df = <<>>
        /\ missing_cols = <<>>
        /\ snapshot_date = NaT
        /\ rfm = <<ScoredRow(1, r1, f1, m1), ScoredRow(2, r2, f2, m2)>>
        /\ fallback = {}
        /\ errors = {}
        /\ rendered = FALSE

NextSegment == ComposeRFMScore \/ Segment \/ Render

SpecSegment == InitSegment /\ [][NextSegment]_vars

-----------------------------------------------------------------------------
(* Properties *)

Prepared == {"score", "compose", "segment", "render", "done"}
Scored   == {"compose", "segment", "render", "done"}
Composed == {"segment", "render", "done"}
Labelled == {"render", "done"}

RowsOf(table) == {table[i] : i \in 1..Len(table)}

\* The rows of the file whose InvoiceDate cell is a date
DatedRows == {r \in RowsOf(file.rows) : r.InvoiceDate \notin {BadDate, NaT}}

\* The customer identifiers on the dated rows; an empty cell is no identifier
DatedCustomers == {r.CustomerID : r \in DatedRows} \ {NaN}

RfmIds == {rfm[k].CustomerID : k \in 1..Len(rfm)}

\* C1: once the customer table is built it holds exactly one row for each
\* customer identifier that occurs on a row of the file whose date parsed,
\* and no other row.
C1_OneRowPerDatedCustomer ==
    pc \in Prepared =>
        /\ RfmIds = DatedCustomers
        /\ Len(rfm) = Cardinality(DatedCustomers)

\* a customer with a dated row is in the table, one whose only row has an
\* unparseable date is not
C1_Witness ==
    /\ pc = "done"
    /\ Len(rfm) = 1
    /\ \E r \in RowsOf(file.rows) :
          /\ r.CustomerID # NaN
          /\ r.InvoiceDate = BadDate
          /\ r.CustomerID \notin RfmIds

\* The distinct order identifiers on the customer's rows of df
OrdersOf(id) == {r.InvoiceNo : r \in {x \in RowsOf(df) : x.CustomerID = id}} \ {NaN}

\* C3: every row of the customer table has Frequency equal to the number of
\* distinct order identifiers of the customer and Frequency >= 1, also when
\* the customer's rows carry no order identifier.
C3_FrequencyAtLeastOne ==
    pc \in Prepared =>
        \A k \in 1..Len(rfm) :
            /\ rfm[k].Frequency = Cardinality(OrdersOf(rfm[k].CustomerID))
            /\ rfm[k].Frequency >= 1

\* The latest date among the customer's dated rows of the file
LatestOf(id) == SetMax({r.InvoiceDate : r \in {x \in DatedRows : x.CustomerID = id}})

LatestDate == SetMax({r.InvoiceDate : r \in DatedRows})

\* d is the whole number of days in the time span delta
WholeDays(d, delta) == d * TicksPerDay <= delta /\ delta < (d + 1) * TicksPerDay

\* C4: the snapshot date is the latest parseable date plus one day, each
\* Recency is the whole number of days from the customer's latest date to
\* the snapshot date, every Recency is at least 1, and the customer of the
\* latest transaction has the least Recency.
C4_SnapshotAndRecency ==
    pc \in Prepared /\ DatedRows # {} =>
        /\ snapshot_date = LatestDate + TicksPerDay
        /\ \A k \in 1..Len(rfm) :
              /\ WholeDays(rfm[k].Recency, snapshot_date - LatestOf(rfm[k].CustomerID))
              /\ rfm[k].Recency >= 1
              /\ LatestOf(rfm[k].CustomerID) = LatestDate =>
                    \A j \in 1..Len(rfm) : rfm[k].Recency <= rfm[j].Recency

\* two customers, one holding the latest date, the other last seen two days
\* and a half before the snapshot date
C4_Witness ==
    /\ pc = "done"
    /\ Len(rfm) = 2
    /\ \E k \in 1..2 :
          /\ rfm[k].Recency = 2
          /\ snapshot_date - LatestOf(rfm[k].CustomerID) = 2 * TicksPerDay + 1
    /\ \E k \in 1..2 :
          /\ rfm[k].Recency = 1
          /\ LatestOf(rfm[k].CustomerID) = LatestDate

ScoreOf(row, metric) ==
    CASE metric = "Recency" -> row.R_Score
      [] metric = "Frequency" -> row.F_Score
      [] metric = "Monetary" -> row.M_Score

\* C2: when safe_qcut takes its fallback for a metric, every customer gets
\* score 1 on that metric.
C2_FallbackIsLowestScore ==
    pc \in Scored =>
        \A m \in fallback : \A k \in 1..Len(rfm) : ScoreOf(rfm[k], m) = 1

\* C6: a run whose file lacks a required column reports the missing columns
\* and stops: it parses no date, builds no customer table and draws nothing.
C6_MissingColumnsStop ==
    /\ file.present
    /\ MissingCols(StandardizedColumns(file.header)) # <<>>
    /\ pc \notin {"load", "standardize"}
    => /\ pc = "stopped"
       /\ missing_cols = MissingCols(StandardizedColumns(file.header))
       /\ "Missing required columns" \in errors
       /\ df = file.rows
       /\ snapshot_date = NaT
       /\ rfm = <<>>
       /\ ~rendered

\* the retail export, which has no Monetary column, with a dated row
C6_Witness ==
    /\ pc = "stopped"
    /\ file.present
    /\ missing_cols = <<"Monetary">>
    /\ DatedCustomers # {}

\* C7: when the columns are there and no row survives the date filter, the
\* run reports an error and the customer table is empty.
C7_EmptyInputReported ==
    pc \in Prepared /\ df = <<>> =>
        /\ errors # {}
        /\ rfm = <<>>

ScoreDigits == {"1", "2", "3", "4"}

ScoreCodes == {a \o b \o c : a \in ScoreDigits, b \in ScoreDigits, c \in ScoreDigits}

\* C8: whatever the table, once scored every customer has R_Score, F_Score
\* and M_Score in 1..4, the composite code is three digits 1-4, and the run
\* goes on to the end without an error.
C8_ScoresDefined ==
    /\ pc \in Scored =>
          \A k \in 1..Len(rfm) :
              /\ rfm[k].R_Score \in 1..4
              /\ rfm[k].F_Score \in 1..4
              /\ rfm[k].M_Score \in 1..4
    /\ pc \in Composed => \A k \in 1..Len(rfm) : rfm[k].RFM_Score \in ScoreCodes
    /\ pc \in Prepared => errors = {}

\* three customers with one order each and two of them with the same total:
\* binning of Monetary falls back, binning of Recency does not
C8_Witness ==
    /\ pc = "done"
    /\ Len(rfm) = 3
    /\ "Monetary" \in fallback
    /\ "Recency" \notin fallback
    /\ \A j, k \in 1..3 : rfm[j].Frequency = rfm[k].Frequency

\* C10: in one customer table, a lower Recency never scores lower on R, a
\* lower Monetary never scores higher on M, a lower Frequency never scores
\* higher on F, and of two customers with equal Frequency the earlier row
\* never scores higher on F.
C10_ScoresMonotone ==
    pc \in Scored =>
        \A a, b \in 1..Len(rfm) :
            /\ rfm[a].Recency <= rfm[b].Recency => rfm[a].R_Score >= rfm[b].R_Score
            /\ rfm[a].Monetary <= rfm[b].Monetary => rfm[a].M_Score <= rfm[b].M_Score
            /\ rfm[a].Frequency < rfm[b].Frequency => rfm[a].F_Score <= rfm[b].F_Score
            /\ rfm[a].Frequency = rfm[b].Frequency /\ a < b
                  => rfm[a].F_Score <= rfm[b].F_Score

\* equal Frequency with different F_Score, and a Recency order that shows in R
C10_Witness ==
    /\ pc = "done"
    /\ \E a, b \in 1..Len(rfm) :
          /\ a < b
          /\ rfm[a].Frequency = rfm[b].Frequency
          /\ rfm[a].F_Score < rfm[b].F_Score
    /\ \E a, b \in 1..Len(rfm) :
          /\ rfm[a].Recency < rfm[b].Recency
          /\ rfm[a].R_Score > rfm[b].R_Score
    /\ \E a, b \in 1..Len(rfm) :
          /\ rfm[a].Monetary < rfm[b].Monetary
          /\ rfm[a].M_Score < rfm[b].M_Score

SegmentLabels ==
    {"Champions", "Loyal Customers", "Potential Loyalist", "New Customers",
     "At Risk", "Others"}

\* C5: whatever the three scores in 1..4, the customer gets one label of the
\* six, and two customers with the same scores get the same label.
C5_SegmentTotal ==
    pc \in Labelled =>
        /\ \A k \in 1..Len(rfm) : rfm[k].Segment \in SegmentLabels
        /\ \A j, k \in 1..Len(rfm) :
              /\ rfm[j].R_Score = rfm[k].R_Score
              /\ rfm[j].F_Score = rfm[k].F_Score
              /\ rfm[j].M_Score = rfm[k].M_Score
              => rfm[j].Segment = rfm[k].Segment

\* two customers with the same scores 1, 2, 4, for which no rule is listed
C5_Witness ==
    /\ pc = "done"
    /\ \A k \in 1..2 :
          /\ rfm[k].R_Score = 1
          /\ rfm[k].F_Score = 2
          /\ rfm[k].M_Score = 4
          /\ rfm[k].Segment = "Others"

\* C9: in the scenario A has Recency 1, Frequency 5, Monetary 1000, B has
\* 40, 1, 50 and C has 2, 3, 500; A has the top score on each axis and is a
\* Champion, B has the bottom score on Recency and Frequency and is At Risk
\* or a Lost Customer.
C9_Scenario ==
    pc = "done" =>
        /\ snapshot_date = Day(40)
        /\ Len(rfm) = 3
        /\ <<rfm[1].Recency, rfm[1].Frequency, rfm[1].Monetary>> = <<1, 5, 1000>>
        /\ <<rfm[2].Recency, rfm[2].Frequency, rfm[2].Monetary>> = <<40, 1, 50>>
        /\ <<rfm[3].Recency, rfm[3].Frequency, rfm[3].Monetary>> = <<2, 3, 500>>
        /\ <<rfm[1].R_Score, rfm[1].F_Score, rfm[1].M_Score>> = <<4, 4, 4>>
        /\ \A k \in 2..3 :
              /\ rfm[k].R_Score < rfm[1].R_Score
              /\ rfm[k].F_Score < rfm[1].F_Score
              /\ rfm[k].M_Score < rfm[1].M_Score
        /\ rfm[1].Segment = "Champions"
        /\ rfm[2].R_Score = 1
        /\ rfm[2].F_Score = 1
        /\ rfm[2].Segment \in {"At Risk", "Lost Customers"}

\* the scenario run to its end, A's orders spread over two days
C9_Witness ==
    /\ pc = "done"
    /\ rfm[1].RFM_Score = "444"
    /\ rfm[2].Segment = "At Risk"
    /\ Cardinality({r.InvoiceDate : r \in {x \in RowsOf(df) : x.CustomerID = 1}}) = 2

====
